---- MODULE Spec2Model ----
(***************************************************************************)
(* Sentinel Privacy Middleware (main.py): the two request handlers,        *)
(* anonymize_text and deanonymize_text, as step machines over request      *)
(* slots.  Text is a sequence of one-character strings, a dict is a        *)
(* sequence of <<key, value>> pairs with distinct keys in insertion order  *)
(* (Python's dict), and spans are 0-based and half-open as in Python.      *)
(* The PII analyzer is an environment whose answer for a text is fixed the *)
(* first time it is asked; the anonymizer is the library's default         *)
(* replace pipeline.                                                       *)
(***************************************************************************)
EXTENDS Integers, Sequences, FiniteSets, TLC

\* ---------------------------------------------------------------- bounds
MaxResults == 2
MaxAiLen == 3
MaxEntries == 2
ConcSlots == 2
MaxRequests == 2

\* ------------------------------------------------------------- sequences
Min(a, b) == IF a < b THEN a ELSE b

Max(a, b) == IF a > b THEN a ELSE b

\* text[start:end] with start taken as 1-based
SliceFromOne(text, start, end) == SubSeq(text, start + 2, end)

\* text[start:end] of Python, for 0 <= start <= end <= len(text)
Slice(text, start, end) == SubSeq(text, start + 1, end)

\* all texts over alphabet of length at most n
TextsUpTo(alphabet, n) == UNION {[1..k -> alphabet] : k \in 0..n}

\* whether key occurs in text at 1-based position p
OccursAt(text, key, p) ==
    /\ p >= 1
    /\ p + Len(key) - 1 <= Len(text)
    /\ \A j \in 1..Len(key) : text[p + j - 1] = key[j]

\* key in text, Python's substring test ("" is in every text)
IsSubstring(key, text) == \E p \in 1..(Len(text) + 1) : OccursAt(text, key, p)

\* ------------------------------------------------------------------ dict
\* a dict that starts with an entry
PrefilledDict == << << <<"<", ">">>, << >> >> >>

EmptyDict == << >>

DictKeys(m) == {m[i][1] : i \in 1..Len(m)}

\* m.setdefault(k, v): the first value of a key stays
DictSetDefault(m, k, v) == IF k \in DictKeys(m) THEN m ELSE Append(m, <<k, v>>)

\* m[k] = v: an existing key keeps its place, a new key goes last
DictSet(m, k, v) ==
    IF k \in DictKeys(m)
    THEN [i \in 1..Len(m) |-> IF m[i][1] = k THEN <<k, v>> ELSE m[i]]
    ELSE Append(m, <<k, v>>)

\* -------------------------------------------------------------- entities
ENTITIES == <<"PERSON", "EMAIL_ADDRESS", "PHONE_NUMBER", "LOCATION">>

EntityTypes == {ENTITIES[i] : i \in 1..Len(ENTITIES)}

\* the characters of an entity type's name
TypeName(t) ==
    CASE t = "PERSON" -> <<"P", "E", "R", "S", "O", "N">>
      [] t = "EMAIL_ADDRESS" ->
            <<"E", "M", "A", "I", "L", "_", "A", "D", "D", "R", "E", "S", "S">>
      [] t = "PHONE_NUMBER" ->
            <<"P", "H", "O", "N", "E", "_", "N", "U", "M", "B", "E", "R">>
      [] t = "LOCATION" -> <<"L", "O", "C", "A", "T", "I", "O", "N">>
      [] OTHER -> <<"U", "R", "L">>

\* f"<{res.entity_type}>"
Placeholder(t) == <<"<">> \o TypeName(t) \o <<">">>

\* ------------------------------------------------------------ str.replace
RECURSIVE ReplaceFrom(_, _, _, _)
\* the scan of str.replace for a non-empty old: the leftmost occurrence at or
\* after i is replaced and the scan goes on behind it
ReplaceFrom(s, old, new, i) ==
    IF i > Len(s) THEN << >>
    ELSE IF OccursAt(s, old, i)
         THEN new \o ReplaceFrom(s, old, new, i + Len(old))
         ELSE <<s[i]>> \o ReplaceFrom(s, old, new, i + 1)

RECURSIVE Interleave(_, _, _)
\* str.replace with old = "": new before every character and at the end
Interleave(s, new, i) ==
    IF i > Len(s) THEN new
    ELSE new \o <<s[i]>> \o Interleave(s, new, i + 1)

\* s.replace(old, new, 1): only the first occurrence
ReplaceFirst(s, old, new) ==
    IF \E p \in 1..(Len(s) + 1) : OccursAt(s, old, p)
    THEN LET p == CHOOSE p \in 1..(Len(s) + 1) :
                      /\ OccursAt(s, old, p)
                      /\ \A q \in 1..(p - 1) : ~OccursAt(s, old, q)
         IN SubSeq(s, 1, p - 1) \o new \o SubSeq(s, p + Len(old), Len(s))
    ELSE s

RECURSIVE ReplaceAnyChar(_, _, _)
\* old taken as a set of characters: every character of s in it is replaced
ReplaceAnyChar(s, old, new) ==
    IF s = << >> THEN << >>
    ELSE (IF \E j \in 1..Len(old) : old[j] = Head(s) THEN new ELSE <<Head(s)>>)
            \o ReplaceAnyChar(Tail(s), old, new)

\* s.replace(old, new)
Replace(s, old, new) ==
    IF old = << >> THEN Interleave(s, new, 1) ELSE ReplaceFrom(s, old, new, 1)

\* --------------------------------------------------------------- analyzer
Spans(n) == {<<a, b>> \in (0..n) \X (0..n) : a < b}

\* the confidence scores the analyzer gives
Scores == {1, 2}

\* one RecognizerResult
ResultsOf(text) ==
    {[entity_type |-> t, start |-> sp[1], end |-> sp[2], score |-> sc] :
        t \in EntityTypes, sp \in Spans(Len(text)), sc \in Scores}

\* what analyzer.analyze(text, entities=ENTITIES) may return: any list of
\* results of the requested entity types with spans inside text
AnalyzerOutputs(text) == UNION {[1..k -> ResultsOf(text)] : k \in 0..MaxResults}

\* ------------------------------------------------------------- anonymizer
\* RecognizerResult.intersects
Intersects(a, b) ==
    IF a.end < b.start \/ b.end < a.start THEN 0
    ELSE Min(a.end, b.end) - Max(a.start, b.start)

\* RecognizerResult.has_conflict: a loses against b
HasConflict(a, b) ==
    IF a.start = b.start /\ a.end = b.end THEN a.score <= b.score
    ELSE b.start <= a.start /\ b.end >= a.end

\* seq without its first element equal to x
RECURSIVE RemoveFirst(_, _)
RemoveFirst(seq, x) ==
    IF seq = << >> THEN << >>
    ELSE IF Head(seq) = x THEN Tail(seq)
    ELSE <<Head(seq)>> \o RemoveFirst(Tail(seq), x)

\* the first index of others (a list of indices into cur) whose result has
\* the type of r and intersects it, 0 when there is none
FirstSameType(cur, others, r) ==
    LET hit == {j \in 1..Len(others) :
                   /\ cur[others[j]].entity_type = r.entity_type
                   /\ Intersects(r, cur[others[j]]) # 0}
    IN IF hit = {} THEN 0 ELSE others[CHOOSE j \in hit : \A k \in hit : j <= k]

RECURSIVE MergeSameType(_, _, _, _)
\* first pass of the conflict removal: a result that intersects another of
\* its type is dropped and the other is widened in place.  cur holds the
\* results' current values, others and kept are lists of indices into it
MergeSameType(i, cur, others, kept) ==
    IF i > Len(cur) THEN [cur |-> cur, kept |-> kept]
    ELSE LET rest == RemoveFirst(others, i)
             o == FirstSameType(cur, rest, cur[i])
         IN IF o = 0
            THEN MergeSameType(i + 1, cur, Append(rest, i), Append(kept, i))
            ELSE MergeSameType(i + 1,
                    [cur EXCEPT ![o] = [@ EXCEPT
                        !.start = Min(cur[i].start, @),
                        !.end = Max(cur[i].end, @),
                        !.score = Max(cur[i].score, @)]],
                    rest, kept)

RECURSIVE DropConflicted(_, _, _)
\* second pass: a result with the indices of another and no higher a score,
\* or contained in another, is dropped
DropConflicted(todo, others, kept) ==
    IF todo = << >> THEN kept
    ELSE LET r == Head(todo)
             rest == RemoveFirst(others, r)
         IN IF \E j \in 1..Len(rest) : HasConflict(r, rest[j])
            THEN DropConflicted(Tail(todo), rest, kept)
            ELSE DropConflicted(Tail(todo), Append(rest, r), Append(kept, r))

\* _remove_conflicts_and_get_text_manipulation_data, default strategy
RemoveConflicts(results) ==
    LET m == MergeSameType(1, results, [i \in 1..Len(results) |-> i], << >>)
        tmp == [j \in 1..Len(m.kept) |-> m.cur[m.kept[j]]]
    IN DropConflicted(tmp, tmp, << >>)

\* re.search("^( )+$", gap)
OnlySpaces(gap) == gap # << >> /\ \A j \in 1..Len(gap) : gap[j] = " "

RECURSIVE MergeWhitespace(_, _, _)
\* _merge_entities_with_whitespace_between: a result of the type of the one
\* before it in the list, with only spaces between them, swallows it
MergeWhitespace(text, todo, merged) ==
    IF todo = << >> THEN merged
    ELSE LET r == Head(todo)
             prev == merged[Len(merged)]
         IN IF /\ merged # << >>
               /\ prev.entity_type = r.entity_type
               /\ prev.end <= r.start
               /\ OnlySpaces(Slice(text, prev.end, r.start))
            THEN MergeWhitespace(text, Tail(todo),
                    Append(SubSeq(merged, 1, Len(merged) - 1),
                           [r EXCEPT !.start = prev.start]))
            ELSE MergeWhitespace(text, Tail(todo), Append(merged, r))

RECURSIVE SortDescending(_)
\* sorted(pii_entities, reverse=True): by start, then end, from the right
SortDescending(rs) ==
    IF rs = << >> THEN << >>
    ELSE LET top == CHOOSE r \in {rs[j] : j \in 1..Len(rs)} :
                        \A j \in 1..Len(rs) :
                            \/ r.start > rs[j].start
                            \/ r.start = rs[j].start /\ r.end >= rs[j].end
         IN <<top>> \o SortDescending(RemoveFirst(rs, top))

RECURSIVE Operate(_, _, _)
\* TextReplaceBuilder: each entity, from the right, is replaced by its
\* placeholder; an end past the last replacement is cut back to it
Operate(output, todo, last) ==
    IF todo = << >> THEN output
    ELSE LET r == Head(todo)
             endOfText == Min(r.end, last)
         IN Operate(SubSeq(output, 1, r.start) \o Placeholder(r.entity_type)
                        \o SubSeq(output, endOfText + 1, Len(output)),
                    Tail(todo), r.start)

\* anonymizer.anonymize(text=text, analyzer_results=results).text
Anonymize(text, results) ==
    Operate(text,
            SortDescending(MergeWhitespace(text, RemoveConflicts(results), << >>)),
            Len(text))

\* ------------------------------------------------------ the two handlers
\* the dict anonymize_text builds from the first n results (lines 22-26)
RECURSIVE BuildMapping(_, _, _)
BuildMapping(text, results, n) ==
    IF n = 0 THEN EmptyDict
    ELSE DictSet(BuildMapping(text, results, n - 1),
                 Placeholder(results[n].entity_type),
                 Slice(text, results[n].start, results[n].end))

\* anonymize_text as a function of the request and the analyzer's answer
anonymize_text(text, results) ==
    [clean_text |-> Anonymize(text, results),
     mapping |-> BuildMapping(text, results, Len(results))]

RECURSIVE ReplaceAll(_, _, _)
\* final_text after the first n entries of mapping (lines 36-38)
ReplaceAll(ai_response, mapping, n) ==
    IF n = 0 THEN ai_response
    ELSE Replace(ReplaceAll(ai_response, mapping, n - 1),
                 mapping[n][1], mapping[n][2])

\* deanonymize_text as a function of the request
deanonymize_text(ai_response, mapping) ==
    [real_human_text |-> ReplaceAll(ai_response, mapping, Len(mapping))]

\* ----------------------------------------------------------------- state
VARIABLES
    pc,          \* slot -> the handler's position
    request,     \* slot -> the request being handled
    results,     \* slot -> anonymize_text's results
    mapping,     \* cell -> anonymize_text's mapping
    idx,         \* slot -> position of the running for loop (1-based)
    final_text,  \* slot -> deanonymize_text's final_text
    response,    \* slot -> the response returned
    nlp,         \* text -> the analyzer's answer, once it has given it
    served,      \* slot -> requests taken so far
    trace,       \* slot -> what the handler did (history)
    origin       \* slot -> the anonymize call a round trip echoes (history)

vars == <<pc, request, results, mapping, idx, final_text, response, nlp,
          served, trace, origin>>

Slots == DOMAIN pc

NoRequest == [kind |-> "none"]

NoResponse == [kind |-> "none"]

NoOrigin == [echo |-> FALSE]

NoTrace == [analyze |-> 0, anonymize |-> 0, visited |-> << >>,
            replaced |-> << >>, steps |-> 0]

\* mapping kept in one module-level cell
SharedCell(s) == 1

\* the iterator skips an element
SkipIndex(i) == i + 2

\* the storage cell of a call's local variable mapping: one per call
MappingCell(s) == s

\* the loop's iterator moves to the next element
NextIndex(i) == i + 1

\* ---------------------------------------------------------------- inputs
\* the texts sent to /anonymize: empty, one entity long, two characters,
\* and two characters with a space between them
AnonTexts == {<< >>, <<"a">>, <<"a", "b">>, <<"a", " ", "b">>}

DeanonAlphabet == {"a", "b"}

AiResponses == TextsUpTo(DeanonAlphabet, MaxAiLen)

\* keys: empty, one character, one that overlaps itself
Keys == {<< >>, <<"a">>, <<"b">>, <<"a", "a">>}

Values == {<< >>, <<"a">>, <<"b">>}

Entries == Keys \X Values

\* Dict[str, str] of a request: distinct keys, any order
Mappings ==
    UNION {{m \in [1..k -> Entries] :
               \A i, j \in 1..k : i # j => m[i][1] # m[j][1]} : k \in 0..MaxEntries}

\* ------------------------------------------------------------------ init
InitSlots(n) ==
    /\ pc = [s \in 1..n |-> "idle"]
    /\ request = [s \in 1..n |-> NoRequest]
    /\ results = [s \in 1..n |-> << >>]
    /\ mapping = [s \in 1..n |-> EmptyDict]
    /\ idx = [s \in 1..n |-> 0]
    /\ final_text = [s \in 1..n |-> << >>]
    /\ response = [s \in 1..n |-> NoResponse]
    /\ served = [s \in 1..n |-> 0]
    /\ trace = [s \in 1..n |-> NoTrace]
    /\ origin = [s \in 1..n |-> NoOrigin]

Init == InitSlots(1) /\ nlp = << >>

\* --------------------------------------------------------------- clients
\* a request enters slot s: the call's locals are fresh
Accept(s, req, org) ==
    /\ request' = [request EXCEPT ![s] = req]
    /\ pc' = [pc EXCEPT ![s] = IF req.kind = "anonymize" THEN "analyze" ELSE "start"]
    /\ results' = [results EXCEPT ![s] = << >>]
    /\ idx' = [idx EXCEPT ![s] = 0]
    /\ final_text' = [final_text EXCEPT ![s] = << >>]
    /\ response' = [response EXCEPT ![s] = NoResponse]
    /\ served' = [served EXCEPT ![s] = @ + 1]
    /\ trace' = [trace EXCEPT ![s] = NoTrace]
    /\ origin' = [origin EXCEPT ![s] = org]
    /\ mapping' = [mapping EXCEPT ![MappingCell(s)] = EmptyDict]
    /\ UNCHANGED nlp

\* POST /anonymize {text}
SubmitAnonymize ==
    \E s \in Slots :
        /\ pc[s] = "idle"
        /\ \E text \in AnonTexts :
              Accept(s, [kind |-> "anonymize", text |-> text], NoOrigin)

\* POST /deanonymize {ai_response, mapping}
SubmitDeanonymize ==
    \E s \in Slots :
        /\ pc[s] = "idle"
        /\ \E ai \in AiResponses, m \in Mappings :
              Accept(s, [kind |-> "deanonymize", ai_response |-> ai, mapping |-> m],
                     NoOrigin)

\* the client sends an /anonymize response back unchanged to /deanonymize
SubmitRoundTrip ==
    \E s \in Slots :
        /\ pc[s] = "done"
        /\ request[s].kind = "anonymize"
        /\ Accept(s, [kind |-> "deanonymize",
                      ai_response |-> response[s].clean_text,
                      mapping |-> response[s].mapping],
                  [echo |-> TRUE, text |-> request[s].text, results |-> results[s]])

\* -------------------------------------------------------- anonymize_text
\* lines 16-22: results = analyzer.analyze(...); mapping = {}
AnalyzeStep(s) ==
    /\ pc[s] = "analyze"
    /\ LET text == request[s].text IN
        \E out \in (IF text \in DOMAIN nlp THEN {nlp[text]} ELSE AnalyzerOutputs(text)) :
            /\ results' = [results EXCEPT ![s] = out]
            /\ nlp' = (IF text \in DOMAIN nlp THEN nlp ELSE nlp @@ (text :> out))
    /\ mapping' = [mapping EXCEPT ![MappingCell(s)] = EmptyDict]
    /\ idx' = [idx EXCEPT ![s] = 1]
    /\ pc' = [pc EXCEPT ![s] = "loop"]
    /\ trace' = [trace EXCEPT ![s].analyze = @ + 1, ![s].steps = @ + 1]
    /\ UNCHANGED <<request, final_text, response, served, origin>>

\* lines 23-26: one pass of for res in results
MappingStep(s) ==
    /\ pc[s] = "loop"
    /\ idx[s] <= Len(results[s])
    /\ LET res == results[s][idx[s]]
           original_val == Slice(request[s].text, res.start, res.end)
           placeholder == Placeholder(res.entity_type)
       IN mapping' = [mapping EXCEPT
                         ![MappingCell(s)] = DictSet(@, placeholder, original_val)]
    /\ trace' = [trace EXCEPT ![s].visited = Append(@, idx[s]), ![s].steps = @ + 1]
    /\ idx' = [idx EXCEPT ![s] = NextIndex(@)]
    /\ UNCHANGED <<pc, request, results, final_text, response, nlp, served, origin>>

\* lines 28-32: the loop is over; anonymizer.anonymize(...) and the return
AnonymizeStep(s) ==
    /\ pc[s] = "loop"
    /\ idx[s] > Len(results[s])
    /\ response' = [response EXCEPT ![s] =
            [kind |-> "anonymize",
             clean_text |-> Anonymize(request[s].text, results[s]),
             mapping |-> mapping[MappingCell(s)]]]
    /\ pc' = [pc EXCEPT ![s] = "done"]
    /\ trace' = [trace EXCEPT ![s].anonymize = @ + 1, ![s].steps = @ + 1]
    /\ UNCHANGED <<request, results, mapping, idx, final_text, nlp, served, origin>>

\* ------------------------------------------------------ deanonymize_text
\* line 36: final_text = request.ai_response
StartStep(s) ==
    /\ pc[s] = "start"
    /\ final_text' = [final_text EXCEPT ![s] = request[s].ai_response]
    /\ idx' = [idx EXCEPT ![s] = 1]
    /\ pc' = [pc EXCEPT ![s] = "replace"]
    /\ trace' = [trace EXCEPT ![s].steps = @ + 1]
    /\ UNCHANGED <<request, results, mapping, response, nlp, served, origin>>

\* lines 37-38: one pass of for placeholder, real_data in request.mapping.items()
ReplaceStep(s) ==
    /\ pc[s] = "replace"
    /\ idx[s] <= Len(request[s].mapping)
    /\ LET placeholder == request[s].mapping[idx[s]][1]
           real_data == request[s].mapping[idx[s]][2]
       IN final_text' = [final_text EXCEPT ![s] = Replace(@, placeholder, real_data)]
    /\ trace' = [trace EXCEPT ![s].replaced = Append(@, idx[s]), ![s].steps = @ + 1]
    /\ idx' = [idx EXCEPT ![s] = NextIndex(@)]
    /\ UNCHANGED <<pc, request, results, mapping, response, nlp, served, origin>>

\* line 39: return {"real_human_text": final_text}
ReturnStep(s) ==
    /\ pc[s] = "replace"
    /\ idx[s] > Len(request[s].mapping)
    /\ response' = [response EXCEPT ![s] =
            [kind |-> "deanonymize", real_human_text |-> final_text[s]]]
    /\ pc' = [pc EXCEPT ![s] = "done"]
    /\ trace' = [trace EXCEPT ![s].steps = @ + 1]
    /\ UNCHANGED <<request, results, mapping, idx, final_text, nlp, served, origin>>

Analyze == \E s \in Slots : AnalyzeStep(s)

BuildEntry == \E s \in Slots : MappingStep(s)

AnonymizeReturn == \E s \in Slots : AnonymizeStep(s)

Start == \E s \in Slots : StartStep(s)

ReplaceEntry == \E s \in Slots : ReplaceStep(s)

DeanonymizeReturn == \E s \in Slots : ReturnStep(s)

Next ==
    \/ SubmitAnonymize
    \/ SubmitDeanonymize
    \/ SubmitRoundTrip
    \/ Analyze
    \/ BuildEntry
    \/ AnonymizeReturn
    \/ Start
    \/ ReplaceEntry
    \/ DeanonymizeReturn

Spec == Init /\ [][Next]_vars

\* ------------------------------------------------- concurrent requests
ConcTexts == {<<"a", "b">>, <<"b", "a">>}

\* the analyzer's answer in the concurrent runs: every character is found,
\* the first as a PERSON, the others as a LOCATION
ConcOutput(text) ==
    [i \in 1..Len(text) |->
        [entity_type |-> IF i = 1 THEN "PERSON" ELSE "LOCATION",
         start |-> i - 1, end |-> i, score |-> 1]]

ConcAiResponses == {<<"a", "b">>}

\* mappings of one-character keys to other one-character values, "a" first
ConcMappings ==
    {m \in Mappings :
        /\ m # << >>
        /\ \A i \in 1..Len(m) : Len(m[i][1]) = 1 /\ Len(m[i][2]) = 1 /\ m[i][1] # m[i][2]
        /\ \A i \in 1..Len(m) : i < Len(m) \/ i = 1 => m[i][1] = <<"a">>}

\* the analyzer's answers are fixed when the service starts
ConcInit ==
    /\ InitSlots(ConcSlots)
    /\ nlp = [t \in ConcTexts |-> ConcOutput(t)]

\* a slot takes its next request once the one before it is answered
ConcSubmitAnonymize ==
    \E s \in Slots :
        /\ pc[s] \in {"idle", "done"}
        /\ served[s] < MaxRequests
        /\ \E text \in ConcTexts :
              Accept(s, [kind |-> "anonymize", text |-> text], NoOrigin)

ConcSubmitDeanonymize ==
    \E s \in Slots :
        /\ pc[s] \in {"idle", "done"}
        /\ served[s] < MaxRequests
        /\ \E ai \in ConcAiResponses, m \in ConcMappings :
              Accept(s, [kind |-> "deanonymize", ai_response |-> ai, mapping |-> m],
                     NoOrigin)

ConcNext ==
    \/ ConcSubmitAnonymize
    \/ ConcSubmitDeanonymize
    \/ Analyze
    \/ BuildEntry
    \/ AnonymizeReturn
    \/ Start
    \/ ReplaceEntry
    \/ DeanonymizeReturn

ConcSpec == ConcInit /\ [][ConcNext]_vars

\* ---------------------------------------------------------------- claims
Answered(s, kind) == pc[s] = "done" /\ request[s].kind = kind

\* a /deanonymize answer to an echoed /anonymize response
EchoAnswered(s) == Answered(s, "deanonymize") /\ origin[s].echo

\* C1: a round trip returns the original text: deanonymize_text applied to
\* the clean_text and mapping of anonymize_text(text) answers text
RoundTripRestores ==
    \A s \in Slots :
        EchoAnswered(s) => response[s].real_human_text = origin[s].text

\* C2: with no analyzer results anonymize_text answers clean_text = text and
\* an empty mapping, and deanonymize_text of that answer gives text back
NoEntitiesNoOp ==
    \A s \in Slots :
        /\ Answered(s, "anonymize") /\ results[s] = << >> =>
              /\ response[s].clean_text = request[s].text
              /\ response[s].mapping = << >>
        /\ EchoAnswered(s) /\ origin[s].results = << >> =>
              /\ request[s].ai_response = origin[s].text
              /\ request[s].mapping = << >>
              /\ response[s].real_human_text = origin[s].text

NoEntitiesRoundTripDone ==
    \E s \in Slots :
        /\ EchoAnswered(s)
        /\ origin[s].results = << >>
        /\ Len(origin[s].text) = 3
        /\ response[s].real_human_text = origin[s].text

\* the substring of the i-th result, and whether it is the last of its type
SpanText(text, res) == SubSeq(text, res.start + 1, res.end)

LastOfType(rs, i) ==
    \A j \in (i + 1)..Len(rs) : rs[j].entity_type # rs[i].entity_type

DictValues(m) == {m[i][2] : i \in 1..Len(m)}

\* the part of C3 that holds: one entry per entity type found, keyed by the
\* type's tag, holding the substring of the last result of that type
OneEntryPerType(text, rs, m) ==
    /\ DictKeys(m) = {<<"<">> \o TypeName(rs[i].entity_type) \o <<">">> : i \in 1..Len(rs)}
    /\ Len(m) = Cardinality({rs[i].entity_type : i \in 1..Len(rs)})
    /\ \A i \in 1..Len(rs) :
          LastOfType(rs, i) =>
              \E k \in 1..Len(m) :
                  /\ m[k][1] = <<"<">> \o TypeName(rs[i].entity_type) \o <<">">>
                  /\ m[k][2] = SpanText(text, rs[i])

\* C3 as stated: one entry per type, the value of the last result of the
\* type, and the substrings of the earlier results of a type absent
LastWinsEarlierAbsent ==
    \A s \in Slots :
        Answered(s, "anonymize") =>
            /\ OneEntryPerType(request[s].text, results[s], response[s].mapping)
            /\ \A i \in 1..Len(results[s]) :
                  ~LastOfType(results[s], i) =>
                      SpanText(request[s].text, results[s][i])
                          \notin DictValues(response[s].mapping)

\* C3 amended: one entry per type with the value of the last result of the
\* type; the substring of an earlier result of a type is in the mapping only
\* where it equals the substring of the last result of some type
LastWins ==
    \A s \in Slots :
        Answered(s, "anonymize") =>
            /\ OneEntryPerType(request[s].text, results[s], response[s].mapping)
            /\ \A i \in 1..Len(results[s]) :
                  SpanText(request[s].text, results[s][i])
                          \in DictValues(response[s].mapping) =>
                      \E j \in 1..Len(results[s]) :
                          /\ LastOfType(results[s], j)
                          /\ SpanText(request[s].text, results[s][j])
                                = SpanText(request[s].text, results[s][i])

SameTypeTwiceAnswered ==
    \E s \in Slots :
        /\ Answered(s, "anonymize")
        /\ Len(results[s]) = 2
        /\ results[s][1].entity_type = results[s][2].entity_type
        /\ SpanText(request[s].text, results[s][1])
              # SpanText(request[s].text, results[s][2])
        /\ Len(response[s].mapping) = 1
        /\ response[s].mapping[1][2] = SpanText(request[s].text, results[s][2])

\* the orders a dict of the same entries can have
Reorderings(m) ==
    {[i \in 1..Len(m) |-> m[p[i]]] :
        p \in {q \in [1..Len(m) -> 1..Len(m)] :
                  \A i, j \in 1..Len(m) : i # j => q[i] # q[j]}}

\* C4: the iteration order of the mapping does not matter: the same entries
\* in any other order give the same real_human_text
OrderIrrelevant ==
    \A s \in Slots :
        Answered(s, "deanonymize") =>
            \A m \in Reorderings(request[s].mapping) :
                deanonymize_text(request[s].ai_response, m).real_human_text
                    = response[s].real_human_text

\* the response to a request handled alone, from the request's own fields
\* (and the analyzer's fixed answer for its text)
Alone(req) ==
    IF req.kind = "anonymize"
    THEN [kind |-> "anonymize",
          clean_text |-> anonymize_text(req.text, nlp[req.text]).clean_text,
          mapping |-> anonymize_text(req.text, nlp[req.text]).mapping]
    ELSE [kind |-> "deanonymize",
          real_human_text |->
              deanonymize_text(req.ai_response, req.mapping).real_human_text]

\* C5: under any interleaving and after any earlier requests a response is
\* the one the request gets when handled alone, and a call in progress sees
\* only the mapping it has built itself
HandledIndependently ==
    \A s \in Slots :
        /\ pc[s] = "done" => response[s] = Alone(request[s])
        /\ pc[s] = "loop" =>
              mapping[MappingCell(s)] = BuildMapping(request[s].text, results[s],
                                        Len(trace[s].visited))

InterleavedAnswered ==
    \E s, t \in Slots :
        /\ s # t
        /\ Answered(s, "anonymize")
        /\ served[s] = MaxRequests
        /\ Len(response[s].mapping) = 2
        /\ pc[t] = "loop"
        /\ request[t].text # request[s].text
        /\ Len(trace[t].visited) = 1
        /\ mapping[MappingCell(t)] # << >>
        /\ mapping[MappingCell(t)][1] \notin {response[s].mapping[i] : i \in 1..Len(response[s].mapping)}

\* the guards of the handler's steps: some step of slot s can be taken
CanStep(s) ==
    \/ pc[s] = "analyze" /\ AnalyzerOutputs(request[s].text) # {}
    \/ pc[s] = "loop" /\ idx[s] <= Len(results[s])
    \/ pc[s] = "loop" /\ idx[s] > Len(results[s])
    \/ pc[s] = "start"
    \/ pc[s] = "replace" /\ idx[s] <= Len(request[s].mapping)
    \/ pc[s] = "replace" /\ idx[s] > Len(request[s].mapping)

\* C6: single pass, no retry: one analyzer call, one anonymizer call, every
\* result visited once and in order, one replacement per mapping entry, and
\* a handler that has not answered can always take its next step and
\* answers after |results| (resp. |mapping|) loop steps
SinglePass ==
    \A s \in Slots :
        /\ trace[s].analyze <= 1 /\ trace[s].anonymize <= 1
        /\ Len(trace[s].visited) <= Len(results[s])
        /\ request[s].kind = "deanonymize" =>
              Len(trace[s].replaced) <= Len(request[s].mapping)
        /\ request[s].kind = "anonymize" =>
              trace[s].steps <= Len(trace[s].visited) + 2
        /\ request[s].kind = "deanonymize" =>
              trace[s].steps <= Len(trace[s].replaced) + 2
        /\ pc[s] \notin {"idle", "done"} => CanStep(s)
        /\ Answered(s, "anonymize") =>
              /\ trace[s].analyze = 1 /\ trace[s].anonymize = 1
              /\ trace[s].visited = [i \in 1..Len(results[s]) |-> i]
              /\ trace[s].replaced = << >>
        /\ Answered(s, "deanonymize") =>
              /\ trace[s].analyze = 0 /\ trace[s].anonymize = 0
              /\ trace[s].replaced = [i \in 1..Len(request[s].mapping) |-> i]
              /\ trace[s].visited = << >>

BothLoopsRun ==
    \E s \in Slots :
        /\ EchoAnswered(s)
        /\ Len(origin[s].results) = MaxResults
        /\ Len(request[s].mapping) = 2
        /\ trace[s].replaced = <<1, 2>>
        /\ trace[s].steps = 4

\* the starts of the non-overlapping occurrences of key in text, taken from
\* the left: an occurrence counts unless one that counts before it covers it
Matches(text, key) ==
    LET sel[p \in 0..(Len(text) + 1)] ==
            IF p = 0 THEN {}
            ELSE IF /\ OccursAt(text, key, p)
                    /\ \A q \in sel[p - 1] : q + Len(key) <= p
                 THEN sel[p - 1] \cup {p}
                 ELSE sel[p - 1]
    IN sel[Len(text) + 1]

RECURSIVE Concat(_, _)
\* the pieces f[1] .. f[n] joined
Concat(f, n) == IF n = 0 THEN << >> ELSE Concat(f, n - 1) \o f[n]

\* text with the occurrences at starts replaced by value: at each position
\* the value if an occurrence starts there, then the character unless an
\* occurrence covers it
Substituted(text, key, value, starts) ==
    Concat([p \in 1..(Len(text) + 1) |->
               (IF p \in starts THEN value ELSE << >>)
               \o (IF p <= Len(text) /\ \A q \in starts : ~(q <= p /\ p < q + Len(key))
                   THEN <<text[p]>> ELSE << >>)],
           Len(text) + 1)

RECURSIVE Folded(_, _, _)
\* the fold of C7 over the first n entries, in iteration order
Folded(text, m, n) ==
    IF n = 0 THEN text
    ELSE LET cur == Folded(text, m, n - 1)
         IN Substituted(cur, m[n][1], m[n][2], Matches(cur, m[n][1]))

\* C7: deanonymize_text folds over the entries in iteration order, each step
\* replacing every non-overlapping left-to-right occurrence of the key in
\* the current text; a key occurring k times is replaced k times
ReplacesEveryOccurrence ==
    \A s \in Slots :
        /\ pc[s] = "replace" =>
              LET n == Len(trace[s].replaced)
                  before == Folded(request[s].ai_response, request[s].mapping, n - 1)
                  key == request[s].mapping[n][1]
                  value == request[s].mapping[n][2]
              IN /\ final_text[s] = Folded(request[s].ai_response, request[s].mapping, n)
                 /\ n >= 1 =>
                       Len(final_text[s]) = Len(before)
                           + Cardinality(Matches(before, key)) * (Len(value) - Len(key))
        /\ Answered(s, "deanonymize") =>
              response[s].real_human_text
                  = Folded(request[s].ai_response, request[s].mapping,
                           Len(request[s].mapping))

ChainedReplacementDone ==
    \E s \in Slots :
        /\ Answered(s, "deanonymize")
        /\ Len(request[s].mapping) = 2
        /\ Cardinality(Matches(request[s].ai_response, request[s].mapping[1][1])) >= 2
        /\ request[s].mapping[1][1] # << >>
        /\ ~IsSubstring(request[s].mapping[2][1], request[s].ai_response)
        /\ request[s].mapping[2][1] # << >>
        /\ Cardinality(Matches(Folded(request[s].ai_response, request[s].mapping, 1),
                               request[s].mapping[2][1])) >= 2
        /\ response[s].real_human_text
              # Folded(request[s].ai_response, request[s].mapping, 1)

\* the entities the anonymizer replaces
Replaced(text, rs) == MergeWhitespace(text, RemoveConflicts(rs), << >>)

\* C8: the placeholders of clean_text and the keys of mapping agree: every
\* placeholder the anonymizer put in is a key, and every key occurs in
\* clean_text
PlaceholdersAgree ==
    \A s \in Slots :
        Answered(s, "anonymize") =>
            /\ \A r \in {Replaced(request[s].text, results[s])[i] :
                            i \in 1..Len(Replaced(request[s].text, results[s]))} :
                  /\ Placeholder(r.entity_type) \in DictKeys(response[s].mapping)
                  /\ IsSubstring(Placeholder(r.entity_type), response[s].clean_text)
            /\ \A k \in DictKeys(response[s].mapping) :
                  IsSubstring(k, response[s].clean_text)

FourTags ==
    {<<"<", "P", "E", "R", "S", "O", "N", ">">>,
     <<"<", "E", "M", "A", "I", "L", "_", "A", "D", "D", "R", "E", "S", "S", ">">>,
     <<"<", "P", "H", "O", "N", "E", "_", "N", "U", "M", "B", "E", "R", ">">>,
     <<"<", "L", "O", "C", "A", "T", "I", "O", "N", ">">>}

\* C9: the mapping has at most four entries, its keys are among <PERSON>,
\* <EMAIL_ADDRESS>, <PHONE_NUMBER>, <LOCATION>, and every value is
\* text[start:end] of an analyzer result of the key's type
MappingShape ==
    \A s \in Slots :
        Answered(s, "anonymize") =>
            LET m == response[s].mapping IN
            /\ Len(m) <= 4
            /\ Len(m) = Cardinality(DictKeys(m))
            /\ \A k \in 1..Len(m) :
                  /\ m[k][1] \in FourTags
                  /\ \E i \in 1..Len(results[s]) :
                        /\ m[k][1] = <<"<">> \o TypeName(results[s][i].entity_type) \o <<">">>
                        /\ m[k][2] = SubSeq(request[s].text, results[s][i].start + 1,
                                            results[s][i].end)
                        /\ IsSubstring(m[k][2], request[s].text)

TwoTypesAnswered ==
    \E s \in Slots :
        /\ Answered(s, "anonymize")
        /\ Len(response[s].mapping) = 2
        /\ response[s].mapping[1][2] # response[s].mapping[2][2]
        /\ Len(response[s].mapping[1][2]) >= 2

\* C10: with an empty mapping, or no key of the mapping occurring in
\* ai_response, real_human_text is ai_response, whatever the values are
UntouchedWithoutMatch ==
    \A s \in Slots :
        Answered(s, "deanonymize") =>
            ((\A k \in DictKeys(request[s].mapping) :
                  ~IsSubstring(k, request[s].ai_response))
             => response[s].real_human_text = request[s].ai_response)

NoKeyOccursAnswered ==
    \E s \in Slots :
        /\ Answered(s, "deanonymize")
        /\ Len(request[s].mapping) = 2
        /\ \A k \in DictKeys(request[s].mapping) :
              ~IsSubstring(k, request[s].ai_response)
        /\ \A i \in 1..2 : request[s].mapping[i][2] # << >>
        /\ IsSubstring(request[s].mapping[2][1], request[s].mapping[1][2])
        /\ Len(request[s].ai_response) = MaxAiLen
        /\ response[s].real_human_text = request[s].ai_response

====
